---- MODULE Spec2Model ----
(***************************************************************************)
(* Model of the python-ply-preview extension (ViewPLYService, version      *)
(* 0.0.7): expression extraction, debug-context resolution, the ordered    *)
(* type-handler dispatch, the remote save and the per-session artifact     *)
(* directories with their cleanup on session termination; and of the       *)
(* earlier viewPLY that resolves its context with a walk over threads,     *)
(* frames, scopes and variables.                                           *)
(*                                                                         *)
(* Strings are sequences of one-character strings (UTF-16 code units);     *)
(* "eacute" stands for the one code unit of a non-ASCII letter.            *)
(* JavaScript's undefined result of getExpressionFromRange is the empty    *)
(* sequence: the function never returns the empty string (line 439).       *)
(***************************************************************************)
EXTENDS Integers, Sequences, FiniteSets, TLC

VARIABLES
    status,     \* session -> "new" | "running" | "terminated"
    active,     \* vscode.debug.activeDebugSession (NoSession when there is none)
    dirs,       \* sessions whose directory <base>/<session.id> exists
    files,      \* the files on disk, each a path [dir, name, ts]
    clock,      \* Date.now()
    act,        \* per viewPLY invocation: its position and local variables, with
                \* input (its document and range), tid (the id of the first
                \* thread reported), outs (the answers to its
                \* typeChecks, in order), and of its latest call of
                \* saveVariableAsPly mk (how its fs.mkdir ended), at
                \* (Date.now() when it built its path) and err (the error
                \* caught)
    reqs,       \* per invocation: the remote requests it has sent, in order
    ui,         \* per invocation: the vscode.window messages it has asked for, in order
    cleanup,    \* per session: position of cleanupSessionFiles
    lateMkdir,  \* per session: a mkdir completed after the cleanup's rm completed
    fin,        \* input of the function under study on its own
    fout        \* its output; for the deep walk, the locals of the invocation

vars == <<status, active, dirs, files, clock, act, reqs, ui, cleanup, lateMkdir, fin, fout>>

mainVars == <<status, active, dirs, files, clock, act, reqs, ui, cleanup, lateMkdir>>

(***************************************************************************)
(* Bounds of the model.                                                    *)
(***************************************************************************)
MaxActions == 2      \* viewPLY invocations in flight together
MaxSoloActions == 1  \* viewPLY invocations followed over every input
MaxSessions == 2     \* debug sessions
MaxClock == 1        \* Date.now() takes the values 0..MaxClock
MaxLineLen == 4      \* length of the lines given to getExpressionFromRange
MaxPad == 51         \* length of the run of one character in a long expression
MaxRows == 2         \* rows of the arrays given to the direct-write program
ColorSteps == 4      \* color values are the multiples of 1/ColorSteps
MaxBody == 3         \* length of the body of a string literal before the cursor

Acts == 1..MaxActions
Sessions == 1..MaxSessions
NoSession == 0

(***************************************************************************)
(* Strings.                                                                *)
(***************************************************************************)
Nothing == <<>>

Min(a, b) == IF a <= b THEN a ELSE b

\* s.substring(from, to) with 0-based, end-exclusive indices
Substring(s, from, to) == SubSeq(s, from + 1, Min(to, Len(s)))

\* s.indexOf(c): 0-based index of the first occurrence, -1 when there is none
IndexOf(s, c) ==
    IF \E i \in 1..Len(s) : s[i] = c
    THEN (CHOOSE i \in 1..Len(s) : s[i] = c /\ \A j \in 1..(i - 1) : s[j] # c) - 1
    ELSE -1

\* (s.match(/c/g) || []).length
CountChar(s, c) == Cardinality({i \in 1..Len(s) : s[i] = c})

RECURSIVE Repeat(_, _)
Repeat(c, n) == IF n <= 0 THEN <<>> ELSE <<c>> \o Repeat(c, n - 1)

RECURSIVE JoinLines(_)
JoinLines(ls) ==
    IF Len(ls) = 0 THEN <<>>
    ELSE IF Len(ls) = 1 THEN ls[1]
    ELSE ls[1] \o <<"\n">> \o JoinLines(Tail(ls))

(***************************************************************************)
(* Expression extractor: getExpressionFromRange.                           *)
(***************************************************************************)
\* The characters that end a word for document.getWordRangeAtPosition.
Separators == {"#", "'", "\"", "\\", " ", "\n", "[", "]", "(", ")", "!", "/", ".", "-"}

IsWordChar(c) == c \notin Separators

\* 0-based start of the run of word characters that ends at column ch
WordStart(line, ch) ==
    CHOOSE s \in 0..ch :
        /\ \A i \in (s + 1)..ch : IsWordChar(line[i])
        /\ (s = 0 \/ ~IsWordChar(line[s]))

\* 0-based end (exclusive) of the run of word characters that starts at column ch
WordEnd(line, ch) ==
    CHOOSE e \in ch..Len(line) :
        /\ \A i \in (ch + 1)..e : IsWordChar(line[i])
        /\ (e = Len(line) \/ ~IsWordChar(line[e + 1]))

\* document.getWordRangeAtPosition(position) found a word
HasWord(line, ch) == WordStart(line, ch) < WordEnd(line, ch)

\* document.getText(document.getWordRangeAtPosition(position)):
\* getText of an undefined range is the text of the whole document.
WordText(doc, ln, ch) ==
    LET line == doc[ln + 1] IN
    IF HasWord(line, ch)
    THEN Substring(line, WordStart(line, ch), WordEnd(line, ch))
    ELSE JoinLines(doc)

\* the comparison off by one: the position right after the '#' is let through
InCommentOffByOne(line, ch) == IndexOf(line, "#") # -1 /\ ch > IndexOf(line, "#") + 1

\* commentIndex !== -1 && wordStartIndex > commentIndex
InComment(line, ch) == IndexOf(line, "#") # -1 /\ ch > IndexOf(line, "#")

\* the heuristic with the double quotes forgotten
InStringSingleOnly(line, ch) == CountChar(Substring(line, 0, ch), "'") % 2 # 0

\* singleQuotes % 2 !== 0 || doubleQuotes % 2 !== 0 on the prefix before the cursor
InString(line, ch) ==
    LET linePrefix == Substring(line, 0, ch) IN
    \/ CountChar(linePrefix, "'") % 2 # 0
    \/ CountChar(linePrefix, "\"") % 2 # 0

getExpressionFromRange(doc, ln, ch) ==
    LET expression == WordText(doc, ln, ch)
        lineText == doc[ln + 1]
    IN  IF expression = <<>> THEN Nothing
        ELSE IF InComment(lineText, ch) THEN Nothing
        ELSE IF InString(lineText, ch) THEN Nothing
        ELSE expression

(***************************************************************************)
(* File-name sanitization of saveVariableAsPly.                            *)
(***************************************************************************)
NameLimit == 50

\* the letters and digits of the model's alphabet
Letters == {"a", "Z"}
Digits == {"7"}
\* the class [a-zA-Z0-9_.-], over the model's alphabet
NameChars == Letters \cup Digits \cup {"_", ".", "-"}

\* the replacement without the g flag: only the first match is replaced
ReplaceFirst(s) ==
    [i \in 1..Len(s) |->
        IF s[i] \notin NameChars /\ \A j \in 1..(i - 1) : s[j] \in NameChars
        THEN "_" ELSE s[i]]

\* expression.replace(/[^a-zA-Z0-9_.-]/g, '_')
ReplaceAll(s) == [i \in 1..Len(s) |-> IF s[i] \in NameChars THEN s[i] ELSE "_"]

SanitizedName(expression) == Substring(ReplaceAll(expression), 0, NameLimit)

\* a file name without the timestamp
SavePathNoStamp(session, expression, now) ==
    [dir |-> session, name |-> SanitizedName(expression), ts |-> 0]

\* join(sessionDir, `${sanitizedName}_${Date.now()}.ply`)
SavePath(session, expression, now) ==
    [dir |-> session, name |-> SanitizedName(expression), ts |-> now]

(***************************************************************************)
(* The debuggee: the value an expression denotes there. Class and module   *)
(* names are sequences of name parts; `'x' in name` is membership of a     *)
(* part, startswith is a test of the first part. ndim and dim2 are -1 when  *)
(* the value has no such attribute.                                        *)
(***************************************************************************)
NoAttr == -1

Value(cls, mod, ndim, dim2) == [bound |-> TRUE, cls |-> cls, mod |-> mod, ndim |-> ndim, dim2 |-> dim2]

\* an expression the debuggee cannot evaluate (NameError, SyntaxError)
Unbound == [bound |-> FALSE, cls |-> <<>>, mod |-> <<>>, ndim |-> NoAttr, dim2 |-> NoAttr]

O3dCloud == Value(<<"PointCloud">>, <<"open3d", "cpu", "pybind", "geometry">>, NoAttr, NoAttr)
NpPoints == Value(<<"ndarray">>, <<"numpy">>, 2, 3)
TorchColored == Value(<<"Tensor">>, <<"torch">>, 2, 6)
NpWide == Value(<<"ndarray">>, <<"numpy">>, 2, 4)
NpFlat == Value(<<"ndarray">>, <<"numpy">>, 1, NoAttr)
TorchVolume == Value(<<"Tensor">>, <<"torch">>, 3, 3)

\* a tensor class named PointCloudTensor of a module under open3d.ml.torch
TorchCloud == Value(<<"PointCloud", "Tensor">>, <<"open3d", "ml", "torch">>, 2, 3)

MainValues == {O3dCloud, NpPoints, TorchColored, NpWide, NpFlat, TorchVolume, TorchCloud, Unbound}

HasPart(name, part) == \E i \in 1..Len(name) : name[i] = part

StartsWith(name, part) == Len(name) > 0 /\ name[1] = part

\* a Python expression that is a bare name
IsIdentifier(expression) ==
    Len(expression) > 0 /\ \A i \in 1..Len(expression) : IsWordChar(expression[i])

\* the values the debuggee may bind the expression to
ValuesFor(expression) == IF IsIdentifier(expression) THEN MainValues ELSE {Unbound}

(***************************************************************************)
(* POINT_CLOUD_HANDLERS: the registry, in declaration order.               *)
(***************************************************************************)
Handlers == <<"Open3D PointCloud", "NumPy Array", "PyTorch Tensor">>

NumHandlers == Len(Handlers)

\* the test of the second dimension without the test of ndim
ShapeCheckSecondDimOnly(v) ==
    IF v.ndim = NoAttr THEN "raise"
    ELSE IF v.dim2 \in {3, 6} THEN "True" ELSE "False"

\* x.ndim == 2 and x.shape[1] in [3, 6]; reading a missing attribute raises
ShapeCheck(v) ==
    IF v.ndim = NoAttr THEN "raise"
    ELSE IF v.ndim = 2 /\ v.dim2 \in {3, 6} THEN "True" ELSE "False"

\* the tensor handler decided by the class name alone
TypeCheckTensorByName(h, v) ==
    IF ~v.bound THEN "raise"
    ELSE IF h = 1 THEN
        IF (StartsWith(v.mod, "open3d") \/ HasPart(v.mod, "open3d")) /\ HasPart(v.cls, "PointCloud")
        THEN "True" ELSE "False"
    ELSE IF h = 2 THEN
        IF (v.mod = <<"numpy">> \/ (StartsWith(v.mod, "numpy") /\ Len(v.mod) > 1))
           /\ v.cls = <<"ndarray">>
        THEN ShapeCheck(v) ELSE "False"
    ELSE
        IF HasPart(v.cls, "Tensor")
        THEN ShapeCheck(v) ELSE "False"

\* the text the debuggee answers to handler h's typeCheck on value v, or "raise"
TypeCheck(h, v) ==
    IF ~v.bound THEN "raise"
    ELSE IF h = 1 THEN
        IF (StartsWith(v.mod, "open3d") \/ HasPart(v.mod, "open3d")) /\ HasPart(v.cls, "PointCloud")
        THEN "True" ELSE "False"
    ELSE IF h = 2 THEN
        IF (v.mod = <<"numpy">> \/ (StartsWith(v.mod, "numpy") /\ Len(v.mod) > 1))
           /\ v.cls = <<"ndarray">>
        THEN ShapeCheck(v) ELSE "False"
    ELSE
        IF HasPart(v.mod, "torch") /\ HasPart(v.cls, "Tensor")
        THEN ShapeCheck(v) ELSE "False"

\* the names under which the debuggee's frame may have imported the libraries
LibraryNames == {"o3d", "np", "torch"}

\* a predicate written with isinstance against the library's class
TypeCheckNamesIsinstance(h) == <<{"o3d"}, {"np"}, {"torch"}>>[h]

\* the library names the text of handler h's typeCheck refers to: it is built
\* from hasattr, attribute reads of the inspected expression and string
\* literals only
TypeCheckNames(h) == {}

\* what the debuggee answers to handler h's typeCheck on value v in a frame
\* with the given imported names: a name that is not bound raises NameError
EvalTypeCheck(h, v, imports) ==
    IF ~(TypeCheckNames(h) \subseteq imports) THEN "raise" ELSE TypeCheck(h, v)

\* every saveExpression going through open3d's writer
SaveImportsOpen3dAll(h) == TRUE

\* handler h's saveExpression imports open3d: only the first one does, the
\* other two are getPureNumpySaveExpression, which imports numpy alone
SaveImportsOpen3d(h) == h = 1

(***************************************************************************)
(* State of the service and of its environment.                            *)
(***************************************************************************)
NoPath == [dir |-> NoSession, name |-> <<>>, ts |-> 0]

NoFrame == -1

\* threads?.[0]?.id of an empty thread list
NoThread == -1

NoInput == [doc |-> <<<<>>>>, ln |-> 0, ch |-> 0]

NoError == "none"

\* a viewPLY invocation that has not been made yet
IdleAct ==
    [pc |-> "idle", input |-> NoInput, session |-> NoSession, expr |-> <<>>, val |-> Unbound,
     tid |-> NoThread, frame |-> NoFrame, h |-> 0, outs |-> <<>>,
     mk |-> "none", at |-> 0, path |-> NoPath, err |-> NoError, result |-> "none"]

\* the documents and cursor positions of the invocations
MainInputs ==
    { [doc |-> <<<<"_">>>>, ln |-> 0, ch |-> 0],
      [doc |-> <<<<"eacute">>>>, ln |-> 0, ch |-> 1],
      [doc |-> <<<<"#", "a">>>>, ln |-> 0, ch |-> 1],
      [doc |-> <<<<"!">>>>, ln |-> 0, ch |-> 1] }

\* thread and frame lists a stopped debuggee may report (ids, first entry on top)
ThreadLists == {<<>>, <<0>>, <<1>>}
FrameLists == {<<>>, <<0>>, <<1>>}

\* a request sent to whatever session is the active one when it is sent
ReqToActive(kind, session, ctx, h, arg) ==
    [kind |-> kind, session |-> active, ctx |-> ctx, h |-> h, arg |-> arg]

Req(kind, session, ctx, h, arg) ==
    [kind |-> kind, session |-> session, ctx |-> ctx, h |-> h, arg |-> arg]

Msg(kind, text) == [kind |-> kind, text |-> text]

MainInit ==
    /\ status = [s \in Sessions |-> "new"]
    /\ active = NoSession
    /\ dirs = {}
    /\ files = {}
    /\ clock = 0
    /\ act = [a \in Acts |-> IdleAct]
    /\ reqs = [a \in Acts |-> <<>>]
    /\ ui = [a \in Acts |-> <<>>]
    /\ cleanup = [s \in Sessions |-> "none"]
    /\ lateMkdir = [s \in Sessions |-> FALSE]

Pending == [done |-> FALSE, val |-> <<>>]

Init ==
    /\ MainInit
    /\ fin = [kind |-> "none"]
    /\ fout = Pending

Running(s) == s # NoSession /\ status[s] = "running"

\* the promise of viewPLY settles: resolved with a path, resolved with undefined,
\* or rejected
Settled(rec, result) == [rec EXCEPT !.pc = "done", !.result = result]

(***************************************************************************)
(* Debug sessions and the clock.                                           *)
(***************************************************************************)
\* a session whose directory is created as soon as it starts
StartSessionWithDirectory(s) ==
    /\ status[s] = "new"
    /\ IF s = 1 THEN TRUE ELSE status[s - 1] # "new"
    /\ status' = [status EXCEPT ![s] = "running"]
    /\ active' = s
    /\ dirs' = dirs \cup {s}
    /\ UNCHANGED <<files, clock, act, reqs, ui, cleanup, lateMkdir, fin, fout>>

\* a debug session starts and becomes the active one; the service does nothing
StartSession(s) ==
    /\ status[s] = "new"
    /\ IF s = 1 THEN TRUE ELSE status[s - 1] # "new"   \* sessions are numbered as they start
    /\ status' = [status EXCEPT ![s] = "running"]
    /\ active' = s
    /\ UNCHANGED <<dirs, files, clock, act, reqs, ui, cleanup, lateMkdir, fin, fout>>

SwitchActive(s) ==
    /\ Running(s)
    /\ active # s
    /\ active' = s
    /\ UNCHANGED <<status, dirs, files, clock, act, reqs, ui, cleanup, lateMkdir, fin, fout>>

Tick ==
    /\ clock < MaxClock
    /\ clock' = clock + 1
    /\ UNCHANGED <<status, active, dirs, files, act, reqs, ui, cleanup, lateMkdir, fin, fout>>

(***************************************************************************)
(* cleanupSessionFiles, the handler of onDidTerminateDebugSession.         *)
(***************************************************************************)
FilesOf(s) == {f \in files : f.dir = s}

\* the session terminates; the handler computes sessionDir and calls fs.rm
Terminate(s) ==
    /\ Running(s)
    /\ status' = [status EXCEPT ![s] = "terminated"]
    /\ \E n \in {NoSession} \cup {t \in Sessions : Running(t) /\ t # s} :
          active' = IF active = s THEN n ELSE active
    /\ cleanup' = [cleanup EXCEPT ![s] = "rm"]
    /\ UNCHANGED <<dirs, files, clock, act, reqs, ui, lateMkdir, fin, fout>>

\* rm of baseStorageDir instead of the session's directory
CleanupTargetBase(s) == Sessions

\* rm of a directory that is not the one the saves of the session write to
CleanupTargetElsewhere(s) == {}

\* sessionDir = join(this.baseStorageDir, session.id): the sessions whose
\* directory the rm covers
CleanupTarget(s) == {s}

\* what a rejected fs.rm leaves of the directory's content
RmLeftovers(s) == SUBSET FilesOf(s)

\* fs.rm(sessionDir, {recursive, force}) resolves: the directory and its content are gone
RmResolves(s) ==
    /\ cleanup[s] = "rm"
    /\ dirs' = dirs \ CleanupTarget(s)
    /\ files' = {f \in files : f.dir \notin CleanupTarget(s)}
    /\ cleanup' = [cleanup EXCEPT ![s] = "removed"]
    /\ UNCHANGED <<status, active, clock, act, reqs, ui, lateMkdir, fin, fout>>

\* a catch that reports the failed removal to the user
RmRejectsShown(s) ==
    /\ cleanup[s] = "rm"
    /\ s \in dirs
    /\ \E left \in RmLeftovers(s) : files' = (files \ FilesOf(s)) \cup left
    /\ cleanup' = [cleanup EXCEPT ![s] = "failed"]
    /\ ui' = [ui EXCEPT ![1] = Append(@, Msg("error: check ViewPLY Debug output", <<>>))]
    /\ UNCHANGED <<status, active, dirs, clock, act, reqs, lateMkdir, fin, fout>>

\* fs.rm rejects: the error is logged, the directory stays with part of its content
RmRejects(s) ==
    /\ cleanup[s] = "rm"
    /\ s \in dirs
    /\ \E left \in RmLeftovers(s) : files' = (files \ FilesOf(s)) \cup left
    /\ cleanup' = [cleanup EXCEPT ![s] = "failed"]
    /\ UNCHANGED <<status, active, dirs, clock, act, reqs, ui, lateMkdir, fin, fout>>

(***************************************************************************)
(* viewPLY, one step per suspension point.                                 *)
(***************************************************************************)
\* a request is answered by the debuggee only while its session runs: the
\* pending requests of a session that ends are rejected
Answers(s) == status[s] = "running"

\* lines 382-402: up to the first await (the threads request of getTopStackFrameId)
ViewPLY(a, input) ==
    /\ act[a].pc = "idle"
    /\ IF a = 1 THEN TRUE ELSE act[a - 1].pc # "idle"   \* invocations are numbered as they start
    /\ LET session == active
           expression == getExpressionFromRange(input.doc, input.ln, input.ch)
       IN  IF session = NoSession \/ expression = Nothing
           THEN \* lines 388-397: no session, or no expression
                /\ act' = [act EXCEPT ![a] = Settled([@ EXCEPT !.input = input, !.session = session],
                                                     "undefined")]
                /\ reqs' = reqs
           ELSE /\ act' = [act EXCEPT ![a] = [@ EXCEPT !.pc = "threads", !.input = input,
                                                   !.session = session, !.expr = expression]]
                /\ reqs' = [reqs EXCEPT ![a] = Append(@, Req("threads", session, "-", 0, NoFrame))]
    /\ UNCHANGED <<status, active, dirs, files, clock, ui, cleanup, lateMkdir, fin, fout>>

\* threads?.[0]?.id
ThreadId(threads) == IF Len(threads) > 0 THEN threads[1] ELSE NoThread

\* the test of `if (!threadId) return`: undefined and the number 0 are falsy
IsTruthy(threadId) == threadId # NoThread /\ threadId # 0

\* lines 466-470: the threads request resolves; threadId = threads?.[0]?.id
ThreadsResolves(a, threads) ==
    /\ act[a].pc = "threads"
    /\ Answers(act[a].session)
    /\ LET threadId == ThreadId(threads)
           rec == [act[a] EXCEPT !.tid = threadId]
           hasThread == IsTruthy(threadId)
       IN  IF ~hasThread
           THEN /\ act' = [act EXCEPT ![a] = Settled(rec, "undefined")]
                /\ reqs' = reqs
           ELSE /\ act' = [act EXCEPT ![a] = [rec EXCEPT !.pc = "stack"]]
                /\ reqs' = [reqs EXCEPT ![a] = Append(@, Req("stackTrace", rec.session, "-", 0, threads[1]))]
    /\ UNCHANGED <<status, active, dirs, files, clock, ui, cleanup, lateMkdir, fin, fout>>

\* a catch that tells the user about the failed request
ContextRejectsShown(a) ==
    /\ act[a].pc \in {"threads", "stack"}
    /\ act' = [act EXCEPT ![a] = Settled(@, "undefined")]
    /\ ui' = [ui EXCEPT ![a] = Append(@, Msg("error: check ViewPLY Debug output", <<>>))]
    /\ UNCHANGED <<status, active, dirs, files, clock, reqs, cleanup, lateMkdir, fin, fout>>

\* lines 472-475 and 403-406: a rejected threads or stackTrace request
ContextRejects(a) ==
    /\ act[a].pc \in {"threads", "stack"}
    /\ act' = [act EXCEPT ![a] = Settled(@, "undefined")]
    /\ UNCHANGED <<status, active, dirs, files, clock, reqs, ui, cleanup, lateMkdir, fin, fout>>

\* the first typeCheck of the loop is sent (lines 409-413); v is the value the
\* expression denotes in the stopped debuggee
FirstCheck(rec, frame, v) ==
    [rec EXCEPT !.pc = "check", !.frame = frame, !.h = 1, !.val = v]

\* lines 471 and 403-413: the stackTrace request resolves
StackResolves(a, frames, v) ==
    /\ act[a].pc = "stack"
    /\ Answers(act[a].session)
    /\ v \in ValuesFor(act[a].expr)
    /\ LET rec == act[a] IN
       IF Len(frames) = 0    \* frameId === undefined
       THEN /\ v = Unbound
            /\ act' = [act EXCEPT ![a] = Settled(rec, "undefined")]
            /\ reqs' = reqs
       ELSE /\ act' = [act EXCEPT ![a] = FirstCheck(rec, frames[1], v)]
            /\ reqs' = [reqs EXCEPT ![a] = Append(@, Req("evaluate", rec.session, "hover", 1, frames[1]))]
    /\ UNCHANGED <<status, active, dirs, files, clock, ui, cleanup, lateMkdir, fin, fout>>

\* the for loop goes on after handler rec.h (lines 409-425): the next typeCheck is
\* sent, or the list is exhausted and the warning is shown
ContinueLoop(a, rec) ==
    IF rec.h < NumHandlers
    THEN /\ act' = [act EXCEPT ![a] = [rec EXCEPT !.pc = "check", !.h = rec.h + 1]]
         /\ reqs' = [reqs EXCEPT ![a] = Append(@, Req("evaluate", rec.session, "hover", rec.h + 1, rec.frame))]
         /\ ui' = ui
    ELSE /\ act' = [act EXCEPT ![a] = Settled(rec, "undefined")]
         /\ reqs' = reqs
         /\ ui' = [ui EXCEPT ![a] = Append(@, Msg("warning: not a recognized Point Cloud", rec.expr))]

\* the catch of the loop's try as a rethrow: the first failure ends the search
CheckCatchAborts(a, rec) ==
    /\ act' = [act EXCEPT ![a] = Settled(rec, "undefined")]
    /\ UNCHANGED <<reqs, ui>>

\* lines 419-421: the catch of the loop's try logs and goes on with the next handler
CheckCatch(a, rec) == ContinueLoop(a, rec)

\* a match on anything the debuggee answers
IsMatchLoose(answer) == answer # "raise"

\* response?.result === 'True'
IsMatch(answer) == answer = "True"

\* what the typeCheck evaluate of handler h can come back with: the debuggee's
\* answer, or a rejection
CheckAnswers(rec) ==
    {"raise"} \cup (IF Answers(rec.session) THEN {TypeCheck(rec.h, rec.val)} ELSE {})

\* lines 413-421: the typeCheck evaluate of handler h comes back
CheckReturns(a, answer) ==
    /\ act[a].pc = "check"
    /\ answer \in CheckAnswers(act[a])
    /\ LET rec == [act[a] EXCEPT !.outs = Append(@, answer)] IN
       IF IsMatch(answer)
       THEN \* saveVariableAsPly, lines 490-491: a new call, fs.mkdir is called
            /\ act' = [act EXCEPT ![a] = [rec EXCEPT !.pc = "mkdir", !.mk = "none",
                                                    !.err = NoError]]
            /\ UNCHANGED <<reqs, ui>>
       ELSE IF answer = "raise"
       THEN CheckCatch(a, rec)
       ELSE ContinueLoop(a, rec)
    /\ UNCHANGED <<status, active, dirs, files, clock, cleanup, lateMkdir, fin, fout>>

(***************************************************************************)
(* saveVariableAsPly.                                                      *)
(***************************************************************************)
\* errorMessage.includes("ViewPLY_Missing_Open3D") || includes("No module named 'open3d'")
IsMissingOpen3d(error) == error \in {"ViewPLY_Missing_Open3D", "No module named 'open3d'"}

\* the catch block, lines 522-547, up to its await or its return
SaveCatch(a, rec, error) ==
    IF IsMissingOpen3d(error)
    THEN /\ act' = [act EXCEPT ![a] = [rec EXCEPT !.pc = "prompt", !.err = error]]
         /\ ui' = [ui EXCEPT ![a] = Append(@, Msg("warning: requires open3d", <<>>))]
    ELSE /\ act' = [act EXCEPT ![a] = Settled([rec EXCEPT !.err = error], "undefined")]
         /\ ui' = [ui EXCEPT ![a] = Append(@, Msg("error: check ViewPLY Debug output", <<>>))]

\* lines 491-517: fs.mkdir resolves, the path is computed and the wrapped save
\* program is sent
MkdirResolves(a) ==
    /\ act[a].pc = "mkdir"
    /\ LET rec == act[a] IN
       /\ dirs' = dirs \cup {rec.session}
       /\ lateMkdir' = [lateMkdir EXCEPT ![rec.session] = @ \/ cleanup[rec.session] \in {"removed", "failed"}]
       /\ act' = [act EXCEPT ![a] = [rec EXCEPT !.pc = "save",
                                                !.mk = "ok", !.at = clock,
                                                !.path = SavePath(rec.session, rec.expr, clock)]]
       /\ reqs' = [reqs EXCEPT ![a] = Append(@, Req("evaluate", rec.session, "repl", rec.h, rec.frame))]
    /\ UNCHANGED <<status, active, files, clock, ui, cleanup, fin, fout>>

\* fs.mkdir rejects
MkdirRejects(a) ==
    /\ act[a].pc = "mkdir"
    /\ SaveCatch(a, [act[a] EXCEPT !.mk = "failed"], "EACCES")
    /\ UNCHANGED <<status, active, dirs, files, clock, reqs, cleanup, lateMkdir, fin, fout>>

\* how the wrapped save program of handler h can end in the debuggee: "ok", or
\* the message of the error it raises. The direct-write program opens the file
\* itself and raises without the directory; open3d's writer reports failure
\* without raising.
SaveResults(rec) ==
    IF ~Answers(rec.session) THEN {"session ended"}
    ELSE {"save failed"}
         \cup (IF SaveImportsOpen3d(rec.h) THEN {"ok", "ViewPLY_Missing_Open3D"} ELSE {})
         \cup (IF ~SaveImportsOpen3d(rec.h) /\ rec.session \in dirs THEN {"ok"} ELSE {})

\* lines 517-520 and 522: the save evaluate comes back
SaveReturns(a, outcome) ==
    /\ act[a].pc = "save"
    /\ outcome \in SaveResults(act[a])
    /\ LET rec == act[a] IN
       IF outcome = "ok"
       THEN /\ files' = IF rec.session \in dirs THEN files \cup {rec.path} ELSE files
            /\ act' = [act EXCEPT ![a] = Settled(rec, "path")]
            /\ ui' = ui
       ELSE /\ files' = files
            /\ SaveCatch(a, rec, outcome)
    /\ UNCHANGED <<status, active, dirs, clock, reqs, cleanup, lateMkdir, fin, fout>>

\* lines 535-546: the install prompt is answered or dismissed
PromptResolves(a, selection) ==
    /\ act[a].pc = "prompt"
    /\ act' = [act EXCEPT ![a] = Settled(@, "undefined")]
    /\ ui' = [ui EXCEPT ![a] =
                IF selection = "How to install"
                THEN @ \o <<Msg("openExternal: pypi.org/project/open3d", <<>>),
                            Msg("info: pip install open3d", <<>>)>>
                ELSE @]
    /\ UNCHANGED <<status, active, dirs, files, clock, reqs, cleanup, lateMkdir, fin, fout>>

\* `return saveVariableAsPly(...)` without await leaves the try block before the
\* promise settles
SaveCallNotAwaited == FALSE

\* line 417: `return await this.saveVariableAsPly(...)`, inside the loop's try
SaveCallAwaited == TRUE

\* line 529: the awaited showWarningMessage rejects inside the catch block, so
\* saveVariableAsPly rejects; viewPLY awaits it inside the try of the loop, whose
\* catch (lines 419-421) takes it for a failed typeCheck
PromptRejects(a) ==
    /\ act[a].pc = "prompt"
    /\ IF SaveCallAwaited
       THEN CheckCatch(a, act[a])
       ELSE /\ act' = [act EXCEPT ![a] = Settled(@, "rejected")]
            /\ UNCHANGED <<reqs, ui>>
    /\ UNCHANGED <<status, active, dirs, files, clock, cleanup, lateMkdir, fin, fout>>

(***************************************************************************)
(* The service with its environment. Spec follows MaxSoloActions           *)
(* invocations over every input, value and answer of the model; SpecRace   *)
(* follows MaxActions invocations in flight together, over the inputs that  *)
(* lead to a save.                                                         *)
(***************************************************************************)
Environment ==
    \/ \E s \in Sessions : StartSession(s)
    \/ \E s \in Sessions : SwitchActive(s)
    \/ Tick
    \/ \E s \in Sessions : Terminate(s)
    \/ \E s \in Sessions : RmResolves(s)
    \/ \E s \in Sessions : RmRejects(s)

Saving ==
    \/ \E a \in Acts : MkdirResolves(a)
    \/ \E a \in Acts : MkdirRejects(a)
    \/ \E a \in Acts, outcome \in {"ok", "ViewPLY_Missing_Open3D", "save failed", "session ended"} :
          SaveReturns(a, outcome)
    \/ \E a \in Acts, selection \in {"How to install", "Cancel"} : PromptResolves(a, selection)
    \/ \E a \in Acts : PromptRejects(a)

Next ==
    \/ Environment
    \/ \E a \in 1..MaxSoloActions, input \in MainInputs : ViewPLY(a, input)
    \/ \E a \in Acts, threads \in ThreadLists : ThreadsResolves(a, threads)
    \/ \E a \in Acts : ContextRejects(a)
    \/ \E a \in Acts, frames \in FrameLists, v \in MainValues : StackResolves(a, frames, v)
    \/ \E a \in Acts, answer \in {"True", "False", "raise"} : CheckReturns(a, answer)
    \/ Saving

Spec == Init /\ [][Next]_vars

\* a remote request of invocation a is answered: resolved or rejected
RemoteAnswers(a) ==
    \/ \E threads \in ThreadLists : ThreadsResolves(a, threads)
    \/ ContextRejects(a)
    \/ \E frames \in FrameLists, v \in MainValues : StackResolves(a, frames, v)
    \/ \E answer \in {"True", "False", "raise"} : CheckReturns(a, answer)
    \/ \E outcome \in {"ok", "ViewPLY_Missing_Open3D", "save failed", "session ended"} :
          SaveReturns(a, outcome)

\* Spec with every pending remote request answered in the end, and every
\* fs.mkdir settled; the install prompt waits for the user, who may never answer
SpecLive ==
    /\ Init /\ [][Next]_vars
    /\ \A a \in Acts : WF_vars(RemoteAnswers(a))
    /\ \A a \in Acts : WF_vars(MkdirResolves(a) \/ MkdirRejects(a))

\* inputs of the invocations that run together: two names with one sanitized name
RaceInputs == {i \in MainInputs : i.doc \in {<<<<"_">>>>, <<<<"eacute">>>>}}
RaceValues == {NpPoints, O3dCloud}

NextRace ==
    \/ Environment
    \/ \E a \in Acts, input \in RaceInputs : ViewPLY(a, input)
    \/ \E a \in Acts : ThreadsResolves(a, <<1>>)
    \/ \E a \in Acts : ContextRejects(a)
    \/ \E a \in Acts, v \in RaceValues : StackResolves(a, <<0>>, v)
    \/ \E a \in Acts, answer \in {"True", "False", "raise"} :
          \* here a typeCheck is rejected only because its session has ended
          /\ act[a].pc = "check"
          /\ Answers(act[a].session) => answer # "raise"
          /\ CheckReturns(a, answer)
    \/ Saving

SpecRace == Init /\ [][NextRace]_vars

(***************************************************************************)
(* The pure functions on their own: one input, one application.            *)
(***************************************************************************)
ExtractChars == {"a", "#", "'", "\"", "\\", " "}

LinesUpTo(n) == UNION {[1..k -> ExtractChars] : k \in 0..n}

\* a document of one line, or of that line followed by another one
ExtractInputs ==
    UNION {
        {[kind |-> "extract", doc |-> d, ln |-> 0, ch |-> c] :
            d \in {<<l>>, <<l, <<"a">>>>}, c \in 0..Len(l)} :
        l \in LinesUpTo(MaxLineLen)}

InitExtract ==
    /\ MainInit
    /\ fin \in ExtractInputs
    /\ fout = Pending

Extract ==
    /\ fin.kind = "extract"
    /\ ~fout.done
    /\ fout' = [done |-> TRUE, val |-> getExpressionFromRange(fin.doc, fin.ln, fin.ch)]
    /\ UNCHANGED <<mainVars, fin>>

SpecExtract == InitExtract /\ [][Extract]_vars

\* lines that begin with a string literal: a quote, a body of up to MaxBody
\* characters, the same quote, and what follows the literal
EscapeBodies == UNION {[1..k -> {"a", "\\", "'", "\""}] : k \in 0..MaxBody}

InitEscape ==
    /\ MainInit
    /\ \E q \in {"'", "\""}, body \in EscapeBodies, tail \in {<<>>, <<"a">>, <<" ", "a">>} :
          LET line == <<q>> \o body \o <<q>> \o tail IN
          \E c \in 0..Len(line) : fin = [kind |-> "extract", doc |-> <<line>>, ln |-> 0, ch |-> c]
    /\ fout = Pending

SpecEscape == InitEscape /\ [][Extract]_vars

SanitizeChars == NameChars \cup {"[", "!", "/", "\\", " ", "eacute"}

ShortStrings == {<<>>} \cup {<<c>> : c \in SanitizeChars}

\* expressions: a run of one character between two short strings
SanitizeInputs ==
    {[kind |-> "sanitize", expr |-> head \o Repeat(c, n) \o tail, session |-> 1, now |-> t] :
        head \in ShortStrings, tail \in ShortStrings, c \in {"a", "!"},
        n \in 0..MaxPad, t \in 0..MaxClock}

InitSanitize ==
    /\ MainInit
    /\ fin \in SanitizeInputs
    /\ fout = Pending

Sanitize ==
    /\ fin.kind = "sanitize"
    /\ ~fout.done
    /\ fout' = [done |-> TRUE, val |-> SavePath(fin.session, fin.expr, fin.now)]
    /\ UNCHANGED <<mainVars, fin>>

SpecSanitize == InitSanitize /\ [][Sanitize]_vars

\* the shapes of the values given to the predicates: <<ndim, shape[1]>>
Shapes ==
    {<<NoAttr, NoAttr>>, <<1, NoAttr>>} \cup {<<n, d>> : n \in {2, 3}, d \in {2, 3, 4, 6}}

TypeValues ==
    {Unbound} \cup
    {Value(c, m, sh[1], sh[2]) :
        c \in {<<"ndarray">>, <<"Tensor">>, <<"PointCloud">>, <<"PointCloud", "Tensor">>, <<"list">>},
        m \in {<<"numpy">>, <<"numpy", "ma">>, <<"torch">>, <<"open3d", "ml", "torch">>,
               <<"open3d", "cpu", "pybind", "geometry">>, <<"builtins">>},
        sh \in Shapes}

\* one value in two frames that differ in their imported names
TypeCheckInputs ==
    {[kind |-> "typecheck", h |-> h, val |-> v, imports |-> i, others |-> j] :
        h \in 1..NumHandlers, v \in TypeValues,
        i \in SUBSET LibraryNames, j \in SUBSET LibraryNames}

InitTypeCheck ==
    /\ MainInit
    /\ fin \in TypeCheckInputs
    /\ fout = Pending

EvaluateTypeCheck ==
    /\ fin.kind = "typecheck"
    /\ ~fout.done
    /\ fout' = [done |-> TRUE,
                val |-> <<EvalTypeCheck(fin.h, fin.val, fin.imports),
                          EvalTypeCheck(fin.h, fin.val, fin.others)>>]
    /\ UNCHANGED <<mainVars, fin>>

SpecTypeCheck == InitTypeCheck /\ [][EvaluateTypeCheck]_vars

(***************************************************************************)
(* getPureNumpySaveExpression: the program that writes the PLY file, on an *)
(* array of shape (n,3) or (n,6). A number of the array is an integer in   *)
(* units of 1/ColorSteps; a line of the header is its sequence of words.   *)
(***************************************************************************)
\* arr.astype(np.uint8) of the value num/den >= 0: the fraction is dropped,
\* the integer wraps to 8 bits
AsUint8(num, den) == (num \div den) % 256

\* the largest color value of the array (rgb.max())
MaxColor(rgb) ==
    CHOOSE m \in {rgb[i][j] : i \in 1..Len(rgb), j \in 1..3} :
        \A i \in 1..Len(rgb), j \in 1..3 : rgb[i][j] <= m

\* the header with the color properties declared whatever the shape
PlyHeaderAlwaysColor(count, hasColor) ==
    << <<"ply">>, <<"format", "ascii", "1.0">>,
       <<"element", "vertex", ToString(count)>>,
       <<"property", "float", "x">>, <<"property", "float", "y">>, <<"property", "float", "z">>,
       <<"property", "uchar", "red">>, <<"property", "uchar", "green">>,
       <<"property", "uchar", "blue">>, <<"end_header">> >>

\* lines 288 and 291-299: the f-string of the header, split at its newlines
PlyHeader(count, hasColor) ==
    << <<"ply">>, <<"format", "ascii", "1.0">>,
       <<"element", "vertex", ToString(count)>>,
       <<"property", "float", "x">>, <<"property", "float", "y">>, <<"property", "float", "z">> >>
    \o (IF hasColor
        THEN << <<"property", "uchar", "red">>, <<"property", "uchar", "green">>,
                <<"property", "uchar", "blue">> >>
        ELSE << <<>> >>)
    \o << <<"end_header">> >>

\* lines 304-314: the rows of an array with colors
ColorRows(xyz, rgb) ==
    LET unit == MaxColor(rgb) <= ColorSteps    \* __vp_rgb.max() <= 1.0
    IN  [i \in 1..Len(xyz) |->
            xyz[i] \o [j \in 1..3 |->
                         IF unit THEN AsUint8(rgb[i][j] * 255, ColorSteps)
                         ELSE AsUint8(rgb[i][j], ColorSteps)]]

\* lines 283-320: the file the program leaves and whether it raised; the
\* header is written before the rows are computed, and max() of an empty
\* array raises
WritePly(xyz, rgb, cols) ==
    LET hasColor == cols = 6 IN
    [header |-> PlyHeader(Len(xyz), hasColor),
     rows |-> IF ~hasColor THEN xyz
              ELSE IF Len(xyz) = 0 THEN <<>>
              ELSE ColorRows(xyz, rgb),
     raised |-> hasColor /\ Len(xyz) = 0]

\* the color values of the model: 0, 1/ColorSteps, ..., 1, and 255
ColorValues == (0..ColorSteps) \cup {255 * ColorSteps}

Origin == <<0, 0, 0>>

\* the color columns of an array of n rows
ColorArrays(n) == [1..n -> [1..3 -> ColorValues]]

\* an array of shape (n,3) or (n,6), n up to MaxRows
InitWrite ==
    /\ MainInit
    /\ \E n \in 0..MaxRows, cols \in {3, 6} :
          \E c \in (IF cols = 6 THEN ColorArrays(n) ELSE {<<>>}) :
              fin = [kind |-> "write", cols |-> cols, xyz |-> [i \in 1..n |-> Origin], rgb |-> c]
    /\ fout = Pending

Write ==
    /\ fin.kind = "write"
    /\ ~fout.done
    /\ fout' = [done |-> TRUE, val |-> WritePly(fin.xyz, fin.rgb, fin.cols)]
    /\ UNCHANGED <<mainVars, fin>>

SpecWrite == InitWrite /\ [][Write]_vars

(***************************************************************************)
(* The wrapping of the save program by saveVariableAsPly. The text of the  *)
(* program is a sequence of lines, each with its indentation; the lines of *)
(* the header's f-string (lines 291-299) are part of a string literal, so  *)
(* their indentation is part of the text the program writes.               *)
(***************************************************************************)
\* rawCommand.replace(/^/gm, '    '): the four spaces
IndentWidth == 4

\* lines 291-299 of the program: the assignment that opens the literal with
\* "ply", the seven lines of text, and the line that closes the literal
HeaderTemplate ==
    << [indent |-> 4, role |-> "open"] >>
    \o [i \in 1..7 |-> [indent |-> 0, role |-> "text"]]
    \o << [indent |-> 0, role |-> "close"] >>

\* line 501: every line of the program gets IndentWidth spaces in front, the
\* lines inside a string literal included
Indented(lines) == [i \in 1..Len(lines) |-> [lines[i] EXCEPT !.indent = @ + IndentWidth]]

\* lines 291-302: the text __vp_f.write(__vp_header) writes. Each line of the
\* header has the spaces that precede it in the literal: none for "ply", which
\* follows the opening quotes, and none for the second and third color
\* property, which follow a "\n" of __vp_color_props; tail is what the
\* literal holds after the last newline, in front of its closing quotes.
WrittenHeader(count, hasColor, template) ==
    LET words == PlyHeader(count, hasColor)
        n == Len(words)
        lead(i) == IF i = 1 THEN 0
                   ELSE IF i <= 7 THEN template[i].indent
                   ELSE IF i = n THEN template[8].indent
                   ELSE 0
    IN  [lines |-> [i \in 1..n |-> [lead |-> lead(i), words |-> words[i]]],
         tail |-> template[9].indent]

\* the header written by the program as it stands in the handler, and by the
\* program wrapped in the try block of lines 499-515
WriteWrapped ==
    /\ fin.kind = "write"
    /\ ~fout.done
    /\ fout' = [done |-> TRUE,
                val |-> [raw |-> WrittenHeader(Len(fin.xyz), fin.cols = 6, HeaderTemplate),
                         wrapped |-> WrittenHeader(Len(fin.xyz), fin.cols = 6,
                                                   Indented(HeaderTemplate))]]
    /\ UNCHANGED <<mainVars, fin>>

SpecWrap == InitWrite /\ [][WriteWrapped]_vars

(***************************************************************************)
(* The names a save program binds and deletes in the frame it runs in. A   *)
(* frame is the set of its bound names, each with who bound it last; a     *)
(* program is the sequence of its binding and del statements on the path   *)
(* without exception.                                                      *)
(***************************************************************************)
Bind(names) == [op |-> "bind", names |-> names]

Del(names) == [op |-> "del", names |-> names]

\* lines 282-318: import ... as __vp_np, the assignments, `with ... as __vp_f`,
\* the assignments of the color branch, and the del statement
getPureNumpySaveExpression(hasColor) ==
    << Bind({"__vp_np"}), Bind({"__vp_data"}), Bind({"__vp_count"}), Bind({"__vp_has_color"}),
       Bind({"__vp_color_props"}), Bind({"__vp_header"}), Bind({"__vp_f"}) >>
    \o (IF hasColor THEN << Bind({"__vp_xyz"}), Bind({"__vp_rgb"}), Bind({"__vp_combined"}) >>
        ELSE <<>>)
    \o << Del({"__vp_np", "__vp_data", "__vp_count", "__vp_header", "__vp_color_props"}) >>

\* lines 330-333, 341 and 349-354: the save program of handler h
saveExpression(h, hasColor) ==
    IF h = 1 THEN << Bind({"__viewply_o3d"}), Del({"__viewply_o3d"}) >>
    ELSE IF h = 2 THEN getPureNumpySaveExpression(hasColor)
    ELSE << Bind({"__vp_torch_np"}) >> \o getPureNumpySaveExpression(hasColor)
         \o << Del({"__vp_torch_np"}) >>

\* the frame after one statement: a binding replaces what the name was bound
\* to, a del of bound names unbinds them
Execute(stmt, frame) ==
    LET others == {b \in frame : b.name \notin stmt.names} IN
    IF stmt.op = "bind"
    THEN others \cup {[name |-> n, by |-> "program"] : n \in stmt.names}
    ELSE others

RECURSIVE RunProgram(_, _)
RunProgram(program, frame) ==
    IF program = <<>> THEN frame
    ELSE RunProgram(Tail(program), Execute(Head(program), frame))

\* the names the user's code may have bound in the frame
UserNames == {"x", "pcd", "e", "__vp_f", "__vp_np", "__vp_torch_np"}

InitBindings ==
    /\ MainInit
    /\ \E h \in 1..NumHandlers, cols \in {3, 6}, names \in SUBSET UserNames :
          fin = [kind |-> "bindings", h |-> h, cols |-> cols,
                 frame |-> {[name |-> n, by |-> "user"] : n \in names}]
    /\ fout = Pending

\* the save program of the handler runs to its end in the frame
RunSave ==
    /\ fin.kind = "bindings"
    /\ ~fout.done
    /\ fout' = [done |-> TRUE, val |-> RunProgram(saveExpression(fin.h, fin.cols = 6), fin.frame)]
    /\ UNCHANGED <<mainVars, fin>>

SpecBindings == InitBindings /\ [][RunSave]_vars

(***************************************************************************)
(* provideCodeActions: the two code-action providers of the repository,    *)
(* PythonPLYProvider (over ViewPLYService.viewPLY) and                     *)
(* PythonOpencvImageProvider (over ViewImageService.ViewImage). Each awaits *)
(* its service and turns the result into a list of commands.               *)
(***************************************************************************)
Providers == {"PythonPLYProvider", "PythonOpencvImageProvider"}

\* the literal "C:/Users/Carlos/demoPython/pcd.ply"
DemoPath == [dir |-> NoSession, name |-> <<"p", "c", "d">>, ts |-> 0]

OpenCommand(target) ==
    [command |-> "vscode.open", title |-> "View PLY", target |-> target, column |-> "Beside"]

\* PythonPLYProvider.provideCodeActions on the result of viewPLY (NoPath for
\* undefined): arguments [vscode.Uri.file(path), vscode.ViewColumn.Beside]
PythonPLYProvider(path) ==
    IF path = NoPath THEN <<>> ELSE <<OpenCommand(path)>>

\* PythonOpencvImageProvider.provideCodeActions on the result of ViewImage:
\* arguments ["C:/Users/Carlos/demoPython/pcd.ply", vscode.ViewColumn.Beside]
PythonOpencvImageProvider(path) ==
    IF path = NoPath THEN <<>> ELSE <<OpenCommand(DemoPath)>>

provideCodeActions(provider, path) ==
    IF provider = "PythonPLYProvider" THEN PythonPLYProvider(path)
    ELSE PythonOpencvImageProvider(path)

\* the paths the service may resolve with
ProviderPaths ==
    {SavePath(s, e, t) :
        s \in Sessions, t \in 0..MaxClock,
        e \in UNION {[1..k -> {"a", "7", "!"}] : k \in 1..3}}

ProviderInputs ==
    {[kind |-> "provide", provider |-> p, result |-> r] :
        p \in Providers, r \in ProviderPaths \cup {NoPath}}

InitProvider ==
    /\ MainInit
    /\ fin \in ProviderInputs
    /\ fout = Pending

ProvideCodeActions ==
    /\ fin.kind = "provide"
    /\ ~fout.done
    /\ fout' = [done |-> TRUE, val |-> provideCodeActions(fin.provider, fin.result)]
    /\ UNCHANGED <<mainVars, fin>>

SpecProvider == InitProvider /\ [][ProvideCodeActions]_vars

(***************************************************************************)
(* The earlier viewPLY (ViewPLYService.ts lines 595-665, the same text as  *)
(* ViewImageService.ViewImage): the deep walk over threads, stack frames,  *)
(* scopes and variables, one step per suspension point. fin is the call,   *)
(* fout the locals of the invocation with the requests it has sent.        *)
(***************************************************************************)
\* the names the debuggee's scopes may hold
DeepNames == {<<"a">>, <<"a", "b">>}

\* the documents of the deep invocations, with the cursor on their first word
DeepInputs ==
    {[kind |-> "deep", session |-> s, doc |-> <<n>>, ln |-> 0, ch |-> 0] :
        s \in {NoSession, 1}, n \in DeepNames}

\* what the threads, stackTrace and scopes requests may report: thread ids,
\* frame ids and variablesReferences, in the order reported
ThreadIdLists == {<<>>, <<1>>, <<1, 2>>}
FrameIdLists == {<<>>, <<0>>, <<1, 2>>}
ScopeLists == {<<>>, <<1>>, <<1, 2>>}

\* lines 603-607: the locals before the walk (let callStack = 0)
DeepIdle ==
    [pc |-> "idle", selectedVariable |-> <<>>, threads |-> <<>>, stacks |-> <<>>,
     scopes |-> <<>>, callStack |-> 0, targetVariable |-> Nothing, sent |-> <<>>,
     numpyAvailable |-> FALSE, result |-> "none"]

DeepReq(kind, arg, ctx) == [kind |-> kind, arg |-> arg, ctx |-> ctx]

DeepSettled(rec, result) == [rec EXCEPT !.pc = "done", !.result = result]

InitDeep ==
    /\ MainInit
    /\ fin \in DeepInputs
    /\ fout = DeepIdle

\* lines 596-603: up to the first await
ViewPLYDeep ==
    /\ fin.kind = "deep"
    /\ fout.pc = "idle"
    /\ fout' = IF fin.session = NoSession
               THEN DeepSettled(fout, "undefined")
               ELSE [fout EXCEPT !.pc = "threads",
                                 !.selectedVariable = WordText(fin.doc, fin.ln, fin.ch),
                                 !.sent = Append(@, DeepReq("threads", 0, "-"))]
    /\ UNCHANGED <<mainVars, fin>>

\* lines 610-612 and 632-635: the next thread of the for loop, or its end with
\* targetVariable undefined
NextThread(rec) ==
    IF rec.threads = <<>>
    THEN DeepSettled(rec, "undefined")
    ELSE [rec EXCEPT !.pc = "stackTrace", !.threads = Tail(@),
                     !.sent = Append(@, DeepReq("stackTrace", Head(rec.threads), "-"))]

\* lines 614-617: the next frame of the thread; callStack = stack.id
NextStack(rec) ==
    IF rec.stacks = <<>>
    THEN NextThread(rec)
    ELSE [rec EXCEPT !.pc = "scopes", !.stacks = Tail(@), !.callStack = Head(rec.stacks),
                     !.sent = Append(@, DeepReq("scopes", Head(rec.stacks), "-"))]

\* lines 619-621: the next scope of the frame
NextScope(rec) ==
    IF rec.scopes = <<>>
    THEN NextStack(rec)
    ELSE [rec EXCEPT !.pc = "variables", !.scopes = Tail(@),
                     !.sent = Append(@, DeepReq("variables", Head(rec.scopes), "-"))]

\* line 604
DeepThreadsResolves(threads) ==
    /\ fout.pc = "threads"
    /\ fout' = NextThread([fout EXCEPT !.threads = threads])
    /\ UNCHANGED <<mainVars, fin>>

\* line 613
DeepStackResolves(frames) ==
    /\ fout.pc = "stackTrace"
    /\ fout' = NextStack([fout EXCEPT !.stacks = frames])
    /\ UNCHANGED <<mainVars, fin>>

\* line 618
DeepScopesResolves(scopes) ==
    /\ fout.pc = "scopes"
    /\ fout' = NextScope([fout EXCEPT !.scopes = scopes])
    /\ UNCHANGED <<mainVars, fin>>

\* a match on every name that begins like the candidate
NameMatchesPrefix(name, selected) ==
    Len(name) >= Len(selected) /\ SubSeq(name, 1, Len(selected)) = selected

\* line 623: v.name === selectedVariable
NameMatches(name, selected) == name = selected

\* variables.find(...): the names of the variables of the scope that match
Found(variables, selected) == {n \in variables : NameMatches(n, selected)}

\* an evaluate request against callStack in the context 'hover'
DeepEvaluate(rec, pc) ==
    [rec EXCEPT !.pc = pc, !.sent = Append(@, DeepReq("evaluate", rec.callStack, "hover"))]

\* lines 622-627 and 637-643: the variables of a scope arrive; on a match the
\* walk breaks out of the three loops and the numpy test is sent
DeepVariablesResolves(variables) ==
    /\ fout.pc = "variables"
    /\ IF Found(variables, fout.selectedVariable) = {}
       THEN fout' = NextScope(fout)
       ELSE \E n \in Found(variables, fout.selectedVariable) :
               fout' = DeepEvaluate([fout EXCEPT !.targetVariable = n], "numpyAvailable")
    /\ UNCHANGED <<mainVars, fin>>

\* stringToBoolean, lines 583-585
stringToBoolean(input) == input \in {"True", "true", "TRUE"}

\* lines 644-664: an evaluate comes back
DeepEvaluateResolves(answer) ==
    /\ fout.pc \in {"numpyAvailable", "validNumpyArray", "store", "write"}
    /\ fout' =
         IF fout.pc = "numpyAvailable"
         THEN IF stringToBoolean(answer)
              THEN DeepEvaluate([fout EXCEPT !.numpyAvailable = TRUE], "validNumpyArray")
              ELSE DeepEvaluate(fout, "write")
         ELSE IF fout.pc = "validNumpyArray"
         THEN IF stringToBoolean(answer)
              THEN DeepEvaluate(fout, "store")
              ELSE DeepEvaluate(fout, "write")
         ELSE DeepSettled(fout, "path")
    /\ UNCHANGED <<mainVars, fin>>

\* a request of the invocation is rejected: no try surrounds the awaits of
\* lines 603-662, so the promise of viewPLY rejects
DeepRejects ==
    /\ fout.pc \notin {"idle", "done"}
    /\ fout' = DeepSettled(fout, "rejected")
    /\ UNCHANGED <<mainVars, fin>>

NextDeep ==
    \/ ViewPLYDeep
    \/ \E threads \in ThreadIdLists : DeepThreadsResolves(threads)
    \/ \E frames \in FrameIdLists : DeepStackResolves(frames)
    \/ \E scopes \in ScopeLists : DeepScopesResolves(scopes)
    \/ \E variables \in SUBSET DeepNames : DeepVariablesResolves(variables)
    \/ \E answer \in {"True", "False", "true"} : DeepEvaluateResolves(answer)
    \/ DeepRejects

SpecDeep == InitDeep /\ [][NextDeep]_vars

(***************************************************************************)
(* Properties of the dispatch (checked under Spec).                        *)
(***************************************************************************)
Done(a) == act[a].pc = "done"

\* the handlers of the typeCheck requests of invocation a, in the order sent
HoverHandlers(a) ==
    LET idx == {j \in 1..Len(reqs[a]) : reqs[a][j].ctx = "hover"}
    IN  {reqs[a][j].h : j \in idx}

\* the handlers whose save program invocation a has sent
SavedHandlers(a) == {reqs[a][j].h : j \in {j \in 1..Len(reqs[a]) : reqs[a][j].ctx = "repl"}}

\* the requests of a are sent in registry order: the k-th typeCheck is handler k's
InRegistryOrder(a) ==
    \A j, k \in 1..Len(reqs[a]) :
        (j < k /\ reqs[a][j].ctx = "hover" /\ reqs[a][k].ctx = "hover")
            => reqs[a][j].h < reqs[a][k].h

\* C1: handler predicates are evaluated strictly in registry order and, as soon
\* as one returns 'True', that handler's save program is the only one executed
\* and no predicate or save program of a later handler is evaluated.
C1_FirstMatchStops ==
    \A a \in Acts :
        /\ InRegistryOrder(a)
        /\ \A i \in 1..Len(act[a].outs) :
              act[a].outs[i] = "True" =>
                 /\ \A h \in HoverHandlers(a) : h <= i
                 /\ SavedHandlers(a) \subseteq {i}

\* C2 as stated: a raise on handler i is followed by the typeCheck of handler
\* i+1, and a raise on handler 1 with 'True' on handler 2 ends with handler 2's
\* save program executed.
C2_RaiseThenSaveExecuted ==
    \A a \in Acts :
        /\ \A i \in 1..Len(act[a].outs) :
              (act[a].outs[i] = "raise" /\ i < NumHandlers) => (i + 1) \in HoverHandlers(a)
        /\ (Done(a) /\ Len(act[a].outs) >= 2 /\ act[a].outs[1] = "raise" /\ act[a].outs[2] = "True")
              => 2 \in SavedHandlers(a)

\* C2 amended: a raise on handler i is followed by the typeCheck of handler
\* i+1; a raise on handler 1 with 'True' on handler 2 selects handler 2 (no
\* later typeCheck is sent, saveVariableAsPly runs for it), and its save
\* program is executed unless creating the session directory fails.
C2_RaiseThenHandlerSelected ==
    \A a \in Acts :
        /\ \A i \in 1..Len(act[a].outs) :
              (act[a].outs[i] = "raise" /\ i < NumHandlers) => (i + 1) \in HoverHandlers(a)
        /\ (Len(act[a].outs) >= 2 /\ act[a].outs[1] = "raise" /\ act[a].outs[2] = "True")
              => /\ act[a].h = 2
                 /\ act[a].pc \in {"mkdir", "save", "prompt", "done"}
                 /\ act[a].mk = "ok" => SavedHandlers(a) = {2}
                 /\ (Done(a) /\ act[a].mk # "ok") => (act[a].mk = "failed" /\ SavedHandlers(a) = {})

\* handler 1 raised, handler 2 answered 'True' and its save program was sent
C2_Witness ==
    \E a \in Acts :
        /\ Done(a)
        /\ act[a].outs = <<"raise", "True">>
        /\ SavedHandlers(a) = {2}

NoMatch(a) ==
    /\ Len(act[a].outs) = NumHandlers
    /\ \A i \in 1..NumHandlers : act[a].outs[i] # "True"

\* C3: when every typeCheck raises or returns something other than 'True',
\* viewPLY shows exactly one warning naming the expression, executes no save
\* program, creates no file or directory and resolves to nothing.
C3_NoMatchWarnsOnce ==
    \A a \in Acts :
        NoMatch(a) =>
            /\ Done(a)
            /\ act[a].result = "undefined"
            /\ ui[a] = <<Msg("warning: not a recognized Point Cloud", act[a].expr)>>
            /\ SavedHandlers(a) = {}
            /\ act[a].mk = "none"
            /\ act[a].path = NoPath
            /\ act[a].path \notin files

\* one typeCheck answered 'False', another raised, none matched
C3_Witness ==
    \E a \in Acts :
        /\ NoMatch(a)
        /\ \E i, j \in 1..NumHandlers : act[a].outs[i] = "False" /\ act[a].outs[j] = "raise"
        /\ Len(ui[a]) = 1

\* C4: whatever the threads, stackTrace, evaluate, mkdir and UI-message calls
\* do, the promise of viewPLY resolves to a path or to undefined, never rejects.
C4_NeverRejects ==
    \A a \in Acts :
        /\ act[a].result # "rejected"
        /\ Done(a) => act[a].result \in {"path", "undefined"}
        /\ act[a].result = "path" => act[a].path # NoPath

\* the install prompt was rejected and the invocation still resolved
C4_Witness ==
    \E a \in Acts :
        /\ Done(a)
        /\ act[a].result = "undefined"
        /\ \E j \in 1..Len(ui[a]) : ui[a][j].kind = "warning: requires open3d"
        /\ act[a].outs[1] = "True"
        /\ Len(act[a].outs) > 1

(***************************************************************************)
(* Properties of the session directories (checked under SpecRace).         *)
(***************************************************************************)
\* the cleanup of session s ends in this step
CleanupEnds(s) == cleanup[s] = "rm" /\ cleanup'[s] # "rm"

\* directory and files of session t are the same before and after the step
Untouched(t) ==
    /\ (t \in dirs') = (t \in dirs)
    /\ {f \in files' : f.dir = t} = {f \in files : f.dir = t}

\* C5 as stated: handling the termination of S removes <base>/S with all its
\* files and leaves the directory and files of every other session unchanged.
C5_CleanupRemoves ==
    [][\A s \in Sessions :
          CleanupEnds(s) =>
             /\ s \notin dirs'
             /\ {f \in files' : f.dir = s} = {}
             /\ \A t \in Sessions \ {s} : Untouched(t)]_vars

\* C5 amended: handling the termination of S leaves the directory and files of
\* every other session unchanged and, when the removal succeeds, removes
\* <base>/S with all its files (a failed removal is logged and may leave it).
C5_CleanupRemovesIfRmResolves ==
    [][\A s \in Sessions :
          CleanupEnds(s) =>
             /\ cleanup'[s] = "removed" => (s \notin dirs' /\ {f \in files' : f.dir = s} = {})
             /\ \A t \in Sessions \ {s} : Untouched(t)]_vars

\* the direct-write save of invocation a put its file on disk
WroteFile(a) == act[a].result = "path" /\ act[a].h = 2

\* session s was cleaned up with a written file in it, while another session
\* keeps its directory and file
C5_Witness ==
    \E s, t \in Sessions, a, b \in Acts :
        /\ s # t
        /\ cleanup[s] = "removed"
        /\ act[a].session = s /\ WroteFile(a) /\ act[a].path \notin files /\ s \notin dirs
        /\ act[b].session = t /\ WroteFile(b) /\ act[b].path \in files /\ t \in dirs

AllFinished == \A a \in Acts : act[a].pc \in {"idle", "done"}

\* C6 as stated: once the termination of S has been handled (its directory
\* removed) and all invocations have finished, <base>/S does not exist, under
\* every interleaving of saves and the termination.
C6_DirectoryGoneAfterTermination ==
    \A s \in Sessions : (cleanup[s] = "removed" /\ AllFinished) => s \notin dirs

\* C6 amended: once the removal at the termination of S has succeeded, <base>/S
\* does not exist and holds no file, unless the fs.mkdir of a save racing the
\* termination completes after the removal (it re-creates the directory,
\* which is then left behind).
C6_DirectoryGoneUnlessLateMkdir ==
    \A s \in Sessions :
        (cleanup[s] = "removed" /\ ~lateMkdir[s]) => (s \notin dirs /\ FilesOf(s) = {})

\* a save is in flight while its session has ended: its directory had been
\* made, the cleanup has removed it under the pending save program
C6_Witness ==
    \E s \in Sessions, a \in Acts :
        /\ act[a].session = s
        /\ act[a].pc = "save" /\ act[a].mk = "ok"
        /\ cleanup[s] = "removed" /\ ~lateMkdir[s]
        /\ s \notin dirs

SavedBoth(a, b) ==
    /\ a # b
    /\ act[a].result = "path" /\ act[b].result = "path"
    /\ act[a].session = act[b].session

Replaced(e) == [i \in 1..Len(e) |-> IF e[i] \in NameChars THEN e[i] ELSE "_"]

C8_SanitizedFileName ==
    fout.done =>
        LET name == fout.val.name
            e == fin.expr
        IN  /\ Len(name) = (IF Len(e) <= 50 THEN Len(e) ELSE 50)
            /\ \A i \in 1..Len(name) :
                  /\ name[i] \in NameChars
                  /\ name[i] = (IF e[i] \in NameChars THEN e[i] ELSE "_")
            /\ fout.val.ts = fin.now
            /\ fout.val.dir = fin.session

\* an expression longer than 50 characters with characters to replace on both
\* sides of the cut
C8_Witness ==
    /\ fout.done
    /\ Len(fin.expr) > 50
    /\ fin.expr[1] \notin NameChars
    /\ \E i \in 2..50 : fin.expr[i] \notin NameChars
    /\ fin.expr[Len(fin.expr)] \notin NameChars
    /\ Len(fout.val.name) = 50

(***************************************************************************)
(* Properties of the extractor (checked under SpecExtract).                *)
(***************************************************************************)
CursorLine == fin.doc[fin.ln + 1]

\* a '#' occurs on the line before the position
HashBefore == \E i \in 1..fin.ch : CursorLine[i] = "#"

\* the number of occurrences of quote character q before the position
QuotesBefore(q) == Cardinality({i \in 1..fin.ch : CursorLine[i] = q})

\* the word at the cursor: the run of word characters around the position,
\* nothing when there is none
WordAtCursor ==
    LET s == CHOOSE k \in 0..fin.ch :
                 /\ \A i \in (k + 1)..fin.ch : CursorLine[i] \notin Separators
                 /\ \A j \in 0..(k - 1) : \E i \in (j + 1)..fin.ch : CursorLine[i] \in Separators
        e == CHOOSE k \in fin.ch..Len(CursorLine) :
                 /\ \A i \in (fin.ch + 1)..k : CursorLine[i] \notin Separators
                 /\ \A j \in (k + 1)..Len(CursorLine) :
                       \E i \in (fin.ch + 1)..j : CursorLine[i] \in Separators
    IN  SubSeq(CursorLine, s + 1, e)

\* C9: whenever a '#' occurs on the line before the cursor position,
\* getExpressionFromRange returns nothing.
C9_NothingAfterHash == (fout.done /\ HashBefore) => fout.val = Nothing

\* a word right after a '#', outside any string: only the comment rule hides it
C9_Witness ==
    /\ fout.done
    /\ fin.ch >= 1 /\ CursorLine[fin.ch] = "#"
    /\ WordAtCursor # <<>>
    /\ QuotesBefore("'") = 0 /\ QuotesBefore("\"") = 0
    /\ fout.val = Nothing

NoWordAt(a) ==
    /\ act[a].pc # "idle"
    /\ ~HasWord(act[a].input.doc[act[a].input.ln + 1], act[a].input.ch)

\* C11: when there is no word at the cursor position, getExpressionFromRange
\* returns nothing, so viewPLY issues no remote request and shows no message.
C11_NoWordNoRequest ==
    \A a \in Acts :
        NoWordAt(a) => (act[a].expr = Nothing /\ reqs[a] = <<>> /\ ui[a] = <<>>)

(***************************************************************************)
(* Properties of the failure reporting of saveVariableAsPly (checked under *)
(* Spec).                                                                  *)
(***************************************************************************)
\* the remote save of invocation a was sent and failed
RemoteSaveFailed(a) == act[a].mk = "ok" /\ act[a].err # NoError

\* how many times invocation a has asked for the message m
Shown(a, m) == Cardinality({j \in 1..Len(ui[a]) : ui[a][j].kind = m})

\* saveVariableAsPly of invocation a is still in its catch block or has
\* returned undefined, which viewPLY returns at once: the save request is the
\* last request and no further message follows
ReturnedNothingAfterSave(a) ==
    /\ act[a].pc \in {"prompt", "done"}
    /\ act[a].pc = "done" => act[a].result = "undefined"
    /\ reqs[a][Len(reqs[a])].ctx = "repl"
    /\ Shown(a, "warning: not a recognized Point Cloud") = 0

\* C12: when the remote save fails, exactly one of two user-facing outcomes
\* occurs: the install-open3d prompt if and only if the failure is a missing
\* open3d library, otherwise the generic error message pointing to the ViewPLY
\* Debug output; in both cases saveVariableAsPly returns nothing.
C12_SaveFailureOneOutcome ==
    \A a \in Acts :
        RemoteSaveFailed(a) =>
            /\ Shown(a, "warning: requires open3d") = (IF IsMissingOpen3d(act[a].err) THEN 1 ELSE 0)
            /\ Shown(a, "error: check ViewPLY Debug output") = (IF IsMissingOpen3d(act[a].err) THEN 0 ELSE 1)
            /\ ReturnedNothingAfterSave(a)

(***************************************************************************)
(* Properties of the direct-write save (checked under Spec).               *)
(***************************************************************************)
\* the last request of invocation a is the save program of handler 2 or 3
DirectWriteSent(a) ==
    /\ Len(reqs[a]) > 0
    /\ reqs[a][Len(reqs[a])].ctx = "repl"
    /\ reqs[a][Len(reqs[a])].h \in {2, 3}

IsArrayOrTensor(v) ==
    \/ v.cls = <<"ndarray">> /\ StartsWith(v.mod, "numpy")
    \/ v.cls = <<"Tensor">> /\ HasPart(v.mod, "torch")

PointShaped(v) == v.ndim = 2 /\ (v.dim2 = 3 \/ v.dim2 = 6)

\* invocation a has sent a save program
SaveSent(a) == \E j \in 1..Len(reqs[a]) : reqs[a][j].ctx = "repl"

\* C15: a save program is executed for a NumPy array or PyTorch tensor only
\* if the value is two-dimensional with second-dimension size exactly 3 or
\* exactly 6; for any other shape the NumPy and PyTorch handlers do not match
\* and no file is produced by them.
C15_SaveOnlyPointShaped ==
    \A a \in Acts :
        (act[a].pc \notin {"idle", "threads", "stack"} /\ IsArrayOrTensor(act[a].val)) =>
            /\ SaveSent(a) => PointShaped(act[a].val)
            /\ ~PointShaped(act[a].val) =>
                  /\ \A j \in 1..Len(act[a].outs) : act[a].outs[j] # "True"
                  /\ act[a].pc \notin {"mkdir", "save", "prompt"}
                  /\ act[a].path = NoPath /\ act[a].path \notin files
                  /\ act[a].result # "path"

\* a three-dimensional tensor whose second dimension is 3 went through the
\* three handlers without a match
C15_Witness ==
    \E a \in Acts :
        /\ Done(a) /\ act[a].val = TorchVolume
        /\ act[a].outs = <<"False", "False", "False">>
        /\ ~SaveSent(a) /\ files = {}

(***************************************************************************)
(* Properties of the direct-write program (checked under SpecWrite).       *)
(***************************************************************************)
\* the integer nearest to num/den, a tie going to the even one
RoundNearest(num, den) ==
    LET q == num \div den
        r == num % den
    IN  IF 2 * r < den THEN q
        ELSE IF 2 * r > den THEN q + 1
        ELSE IF q % 2 = 0 THEN q ELSE q + 1

\* the array has six columns and every color value lies in [0,1]
UnitColors ==
    /\ fin.cols = 6
    /\ \A i \in 1..Len(fin.rgb), j \in 1..3 : fin.rgb[i][j] <= ColorSteps

\* C16: for an (n,6) array whose color values c all lie in [0,1], the
\* direct-write save program writes each color channel as the 8-bit integer
\* round(c*255).
C16_ColorsRounded ==
    (fout.done /\ UnitColors) =>
        /\ Len(fout.val.rows) = Len(fin.rgb)
        /\ \A i \in 1..Len(fin.rgb), j \in 1..3 :
              fout.val.rows[i][3 + j] = RoundNearest(fin.rgb[i][j] * 255, ColorSteps)

\* the lines of the written header that declare a property of the given type
PropertyLines(type) ==
    SelectSeq(fout.val.header,
              LAMBDA l : Len(l) = 3 /\ l[1] = "property" /\ l[2] = type)

\* the lines of the written header that declare an element
ElementLines == SelectSeq(fout.val.header, LAMBDA l : Len(l) > 0 /\ l[1] = "element")

\* C17: for an (n,3) array the direct-write path emits a header declaring
\* 'element vertex n' with exactly three 'property float' lines and no color
\* property lines, followed by exactly n data rows; for an (n,6) array it
\* additionally declares the three uchar properties red, green, blue.
C17_HeaderMatchesShape ==
    fout.done =>
        LET n == Len(fin.xyz) IN
        /\ ElementLines = << <<"element", "vertex", ToString(n)>> >>
        /\ PropertyLines("float") =
              << <<"property", "float", "x">>, <<"property", "float", "y">>,
                 <<"property", "float", "z">> >>
        /\ fin.cols = 3 => PropertyLines("uchar") = <<>>
        /\ fin.cols = 6 =>
              PropertyLines("uchar") =
                 << <<"property", "uchar", "red">>, <<"property", "uchar", "green">>,
                    <<"property", "uchar", "blue">> >>
        /\ \A k \in 1..Len(fout.val.header) :
              Len(fout.val.header[k]) > 0 /\ fout.val.header[k][1] = "property"
                 => fout.val.header[k][2] \in {"float", "uchar"}
        /\ fout.val.header[1] = <<"ply">>
        /\ fout.val.header[Len(fout.val.header)] = <<"end_header">>
        /\ Len(fout.val.rows) = n
        /\ \A i \in 1..n : Len(fout.val.rows[i]) = fin.cols

\* an array of shape (MaxRows,3) written with its rows and no color property
C17_Witness ==
    /\ fout.done
    /\ fin.cols = 3 /\ Len(fin.xyz) = MaxRows
    /\ Len(fout.val.rows) = MaxRows
    /\ PropertyLines("uchar") = <<>>
    /\ ~fout.val.raised

(***************************************************************************)
(* Properties of the code-action providers (checked under SpecProvider).   *)
(***************************************************************************)
\* C18: the code-action provider returns no command when the service
\* resolves to nothing, and otherwise exactly one command, which opens side
\* by side the very path the service returned for this action.
C18_CommandOpensReturnedPath ==
    fout.done =>
        IF fin.result = NoPath
        THEN fout.val = <<>>
        ELSE /\ Len(fout.val) = 1
             /\ fout.val[1].command = "vscode.open"
             /\ fout.val[1].column = "Beside"
             /\ fout.val[1].target = fin.result

(***************************************************************************)
(* Properties of the creation of the session directory (checked under Spec). *)
(***************************************************************************)
\* a save of invocation a for session s has succeeded
SaveSucceeded(a, s) == act[a].session = s /\ act[a].result = "path"

\* a save of invocation a for session s has been sent and is not back yet
SaveInFlight(a, s) == act[a].session = s /\ act[a].pc = "save"

\* C19 as stated: at every point in time a directory <base>/S exists only if
\* at least one save for session S has succeeded; an action whose remote
\* save program fails leaves no directory behind when none existed before
\* (a save that is still in flight is not held against the claim).
C19_DirectoryOnlyAfterSuccessfulSave ==
    \A s \in dirs : \E a \in Acts : SaveSucceeded(a, s) \/ SaveInFlight(a, s)

\* C19 amended: a directory <base>/S exists only if some action of session S
\* matched a handler and its fs.mkdir succeeded, which happens before the
\* save program is sent; an action whose save program then fails leaves the
\* directory behind.
C19_DirectoryOnlyAfterMkdir ==
    \A s \in dirs :
        \E a \in Acts :
            /\ act[a].session = s
            /\ \E j \in 1..Len(act[a].outs) : act[a].outs[j] = "True"
            /\ SaveSent(a)      \* sent by the continuation of a resolved fs.mkdir

\* the save program failed and the empty directory is still there
C19_Witness ==
    \E a \in Acts :
        /\ Done(a) /\ RemoteSaveFailed(a)
        /\ act[a].session \in dirs
        /\ FilesOf(act[a].session) = {}
        /\ \A b \in Acts : act[b].result # "path"

(***************************************************************************)
(* Properties of getTopStackFrameId (checked under Spec).                  *)
(***************************************************************************)
\* the session has reported a non-empty thread list to invocation a
ThreadReported(a) == act[a].pc # "threads" /\ act[a].tid # NoThread

\* invocation a has asked for the top frame of the thread it was given
StackAsked(a) ==
    \E j \in 1..Len(reqs[a]) : reqs[a][j].kind = "stackTrace" /\ reqs[a][j].arg = act[a].tid

\* invocation a has sent a typeCheck against the frame it was given
DispatchedOnFrame(a) ==
    \E j \in 1..Len(reqs[a]) : reqs[a][j].ctx = "hover" /\ reqs[a][j].arg = act[a].frame

\* C20: whenever the session reports a non-empty thread list and the
\* stackTrace query for the first thread returns a frame, getTopStackFrameId
\* returns that frame's identifier, for every value of the thread id and of
\* the frame id, 0 included, and viewPLY goes on to dispatch against it.
C20_TopFrameForAnyIds ==
    \A a \in Acts :
        /\ ThreadReported(a) => StackAsked(a)
        /\ act[a].frame # NoFrame => DispatchedOnFrame(a)

(***************************************************************************)
(* Properties of the context resolution (the deep walk under SpecDeep).    *)
(***************************************************************************)
WalkKinds == {"threads", "stackTrace", "scopes", "variables"}

\* the request the deep invocation sent last
LastSent == fout.sent[Len(fout.sent)]

\* C21: in both context-resolution strategies a rejection of a threads,
\* stackTrace, scopes or variables request is caught and turned into 'no
\* context available': the entry point resolves to nothing and never
\* rejects. For the deep walk: an invocation that ended while one of these
\* requests was pending has not rejected.
C21_WalkFailureNotPropagated ==
    (fout.pc = "done" /\ fout.sent # <<>> /\ LastSent.kind \in WalkKinds)
        => fout.result = "undefined"

(***************************************************************************)
(* Properties of the invocations that find nothing to act on (Spec).       *)
(***************************************************************************)
\* invocation a has ended without an evaluation context: no session, no
\* expression, or no stack frame
EndedWithoutContext(a) == Done(a) /\ act[a].frame = NoFrame

EvaluatesSent(a) == {j \in 1..Len(reqs[a]) : reqs[a][j].kind = "evaluate"}

\* C22: with no active debug session, with no expression extracted, or with
\* no stack frame resolved, viewPLY is a silent no-op: it sends no evaluate
\* request, calls no mkdir and computes no path to write to, shows no
\* message, and resolves to nothing; with no active session it sends no
\* request at all.
C22_SilentNoOp ==
    \A a \in Acts :
        EndedWithoutContext(a) =>
            /\ EvaluatesSent(a) = {}
            /\ act[a].mk = "none"
            /\ act[a].path = NoPath
            /\ act[a].path \notin files
            /\ ui[a] = <<>>
            /\ act[a].result = "undefined"
            /\ act[a].session = NoSession => reqs[a] = <<>>
            /\ act[a].expr = Nothing => reqs[a] = <<>>

\* an invocation with a session and an expression asked for the threads and
\* for the top frame, was given no frame, and ended
C22_Witness ==
    \E a \in Acts :
        /\ EndedWithoutContext(a)
        /\ act[a].session # NoSession
        /\ act[a].expr # Nothing
        /\ Len(reqs[a]) = 2
        /\ reqs[a][2].kind = "stackTrace"

(***************************************************************************)
(* Properties of getExpressionFromRange on escaped quotes (SpecEscape).    *)
(***************************************************************************)
\* the number of backslashes that immediately precede character i of the line
BackslashesBefore(i) ==
    CHOOSE k \in 0..(i - 1) :
        /\ \A j \in (i - k)..(i - 1) : CursorLine[j] = "\\"
        /\ (i - k - 1 >= 1) => CursorLine[i - k - 1] # "\\"

\* the quote at character i is escaped with a backslash
Escaped(i) == BackslashesBefore(i) % 2 = 1

UnescapedQuotesBefore(q) ==
    Cardinality({i \in 1..fin.ch : CursorLine[i] = q /\ ~Escaped(i)})

\* the line begins with a string literal in quote q that is closed before the
\* cursor and holds an escaped quote; no other literal precedes the cursor
ClosedLiteralWithEscape(q) ==
    /\ fin.ch >= 1 /\ CursorLine[1] = q
    /\ UnescapedQuotesBefore(q) = 2
    /\ \A o \in {"'", "\""} \ {q} : UnescapedQuotesBefore(o) = 0
    /\ \E i, j \in 1..fin.ch :
          /\ i < j
          /\ CursorLine[i] \in {"'", "\""} /\ Escaped(i)
          /\ CursorLine[j] = q /\ ~Escaped(j)

\* C24: quote characters escaped with a backslash do not count toward the
\* string-literal parity check: a word that follows a closed string literal
\* containing an escaped quote, with no '#' before it, is returned.
C24_EscapedQuotesNotCounted ==
    (/\ fout.done
     /\ \E q \in {"'", "\""} : ClosedLiteralWithEscape(q)
     /\ ~HashBefore
     /\ WordAtCursor # <<>>)
        => fout.val = WordAtCursor

(***************************************************************************)
(* Properties of the deep walk (SpecDeep).                                 *)
(***************************************************************************)
SentOf(kind) == {j \in 1..Len(fout.sent) : fout.sent[j].kind = kind}

\* the last request of the given kind sent before request j (0 if none)
LastBefore(kind, j) ==
    IF \E i \in SentOf(kind) : i < j
    THEN CHOOSE i \in SentOf(kind) : i < j /\ \A k \in SentOf(kind) : k < j => k <= i
    ELSE 0

\* requests i < j of one kind under the same parent request ask for entries
\* in the order reported (the lists of the model are reported in increasing order)
InReportedOrder(kind, parent) ==
    \A i, j \in SentOf(kind) :
        (i < j /\ LastBefore(parent, i) = LastBefore(parent, j))
            => fout.sent[i].arg < fout.sent[j].arg

\* C23: the deep walk visits threads, then frames, then scopes in the order
\* reported; it stops at the first scope with a variable whose name equals
\* the candidate exactly; after the match it sends no stackTrace, scopes or
\* variables request; and every evaluate request names the frame of the
\* last scopes request, the frame in which the match was found.
C23_DeepWalkStopsAtFirstMatch ==
    fin.kind = "deep" =>
        /\ InReportedOrder("stackTrace", "threads")
        /\ InReportedOrder("scopes", "stackTrace")
        /\ InReportedOrder("variables", "scopes")
        /\ \A j \in SentOf("variables") : LastBefore("scopes", j) > LastBefore("stackTrace", j)
        /\ \A j \in SentOf("scopes") : LastBefore("stackTrace", j) > LastBefore("threads", j)
        /\ fout.targetVariable # Nothing => fout.targetVariable = fout.selectedVariable
        /\ SentOf("evaluate") # {} <=> fout.targetVariable # Nothing
        /\ \A e \in SentOf("evaluate") :
              /\ \A j \in 1..Len(fout.sent) : j > e => fout.sent[j].kind = "evaluate"
              /\ fout.sent[e].arg = fout.sent[LastBefore("scopes", e)].arg
              /\ fout.sent[LastBefore("variables", e)].kind = "variables"
              /\ LastBefore("variables", e) > LastBefore("scopes", e)

\* a walk that found the variable in the second frame it visited and went on
\* to evaluate against that frame
C23_Witness ==
    /\ fin.kind = "deep"
    /\ fout.result = "path"
    /\ fout.targetVariable = fout.selectedVariable
    /\ Cardinality(SentOf("scopes")) >= 2
    /\ Cardinality(SentOf("evaluate")) >= 2
    /\ fout.callStack = 2

(***************************************************************************)
(* Properties of the three predicates together (SpecTypeCheck).            *)
(***************************************************************************)
\* the handlers whose predicate answers 'True' on the value of the input
TrueHandlers == {h \in 1..NumHandlers : TypeCheck(h, fin.val) = "True"}

\* C27: the three handler predicates are mutually exclusive: for every
\* value (every combination of class name, module name, ndim and second
\* dimension) at most one handler's predicate evaluates to True.
C27_PredicatesExclusive ==
    (fout.done /\ fout.val[1] = "True") => TrueHandlers = {fin.h}

\* C27 amended: the NumPy predicate is true of no value another predicate is
\* true of. The Open3D and the PyTorch predicate test for substrings, and
\* both are true of a value of shape (n,3) or (n,6) whose class name
\* contains 'PointCloud' and 'Tensor' and whose module name contains
\* 'open3d' and 'torch'; of every other value at most one predicate is true.
C27_ExclusiveButForSubstrings ==
    (fout.done /\ fout.val[1] = "True") =>
        \/ TrueHandlers = {fin.h}
        \/ /\ TrueHandlers = {1, 3}
           /\ HasPart(fin.val.cls, "PointCloud") /\ HasPart(fin.val.cls, "Tensor")
           /\ HasPart(fin.val.mod, "open3d") /\ HasPart(fin.val.mod, "torch")
           /\ PointShaped(fin.val)

\* the PyTorch predicate is evaluated and answers 'True' on a value the
\* Open3D predicate is true of as well
C27_Witness ==
    /\ fout.done
    /\ fin.h = 3
    /\ fout.val[1] = "True"
    /\ TrueHandlers = {1, 3}

(***************************************************************************)
(* Properties of the evaluation contexts (Spec).                           *)
(***************************************************************************)
ReplSent(a) == {j \in 1..Len(reqs[a]) : reqs[a][j].ctx = "repl"}

HoverSent(a) == {j \in 1..Len(reqs[a]) : reqs[a][j].ctx = "hover"}

\* the hover request j of invocation a is the k-th typeCheck it sent, and the
\* k-th answer it received is 'True'
AnsweredTrue(a, j) ==
    LET k == Cardinality({i \in HoverSent(a) : i <= j})
    IN  k <= Len(act[a].outs) /\ act[a].outs[k] = "True"

\* C25: every predicate evaluation is sent with the context 'hover', the save
\* program is the only request sent with the context 'repl', and within one
\* invocation the 'repl' request is sent at most once and only after a 'hover'
\* request of the same invocation returned 'True'.
C25_HoverThenOneRepl ==
    \A a \in Acts :
        /\ EvaluatesSent(a) = HoverSent(a) \cup ReplSent(a)
        /\ Cardinality(ReplSent(a)) <= 1
        /\ \A j \in ReplSent(a) :
              \E i \in HoverSent(a) :
                  i < j /\ reqs[a][i].h = reqs[a][j].h /\ AnsweredTrue(a, i)

(***************************************************************************)
(* Properties of the names a save program leaves bound (SpecBindings).     *)
(***************************************************************************)
\* C26: a save program leaves no temporary binding behind: after it has run
\* successfully the names bound in the evaluation frame are those bound
\* before it ran, every name the program introduced is deleted, and no user
\* variable is overwritten.
C26_NoBindingLeftBehind ==
    fout.done => fout.val = fin.frame

(***************************************************************************)
(* Properties of a cleanup whose removal fails (Spec).                     *)
(***************************************************************************)
CleanupOver(s) == cleanup[s] \in {"removed", "failed"}

\* C28: a failure of the directory removal during session cleanup is only
\* logged: the step in which fs.rm rejects ends the handler, shows no message
\* and changes nothing of the invocations; a handler that has ended calls
\* fs.rm no more; and the cleanup of a session without a directory ends
\* without a failure.
C28_CleanupFailureOnlyLogged ==
    [][\A s \in Sessions :
          /\ CleanupEnds(s) =>
                /\ CleanupOver(s)'
                /\ ui' = ui /\ act' = act /\ reqs' = reqs /\ status' = status
                /\ s \notin dirs => cleanup'[s] = "removed"
          /\ CleanupOver(s) =>
                /\ cleanup'[s] = cleanup[s]
                /\ cleanup[s] = "failed" => (s \in dirs' <=> s \in dirs)]_vars

\* the removal of a session's directory has failed and the directory is
\* still there, while the cleanup of a session that saved nothing has ended
C28_Witness ==
    \E s, t \in Sessions :
        /\ cleanup[s] = "failed" /\ s \in dirs
        /\ cleanup[t] = "removed" /\ \A a \in Acts : act[a].session # t
        /\ \A a \in Acts : Shown(a, "error: check ViewPLY Debug output") = 0

(***************************************************************************)
(* Properties of the wrapped save program (SpecWrap).                      *)
(***************************************************************************)
\* C29: wrapping a handler's save program in the try/except block, which
\* indents every line of it by four spaces, does not change what the program
\* writes: the header lines written by the wrapped direct-write program are
\* those the unwrapped program would write, the first of them 'ply', with no
\* leading whitespace added.
C29_WrappingKeepsHeader ==
    fout.done =>
        /\ fout.val.wrapped = fout.val.raw
        /\ fout.val.wrapped.lines[1] = [lead |-> 0, words |-> <<"ply">>]
        /\ \A i \in 1..Len(fout.val.wrapped.lines) : fout.val.wrapped.lines[i].lead = 0

(***************************************************************************)
(* Properties of the path viewPLY resolves to (Spec).                      *)
(***************************************************************************)
\* the save program of handler h was sent by invocation a after h's
\* predicate had returned 'True'
MatchedAndSent(a, h) ==
    \E j \in ReplSent(a) :
        /\ reqs[a][j].h = h
        /\ \E i \in HoverSent(a) : i < j /\ reqs[a][i].h = h /\ AnsweredTrue(a, i)

\* a save evaluation of invocation a was rejected: the catch of
\* saveVariableAsPly has shown its warning or its error
SaveRejected(a) ==
    \/ Shown(a, "warning: requires open3d") > 0
    \/ act[a].mk = "ok" /\ act[a].err # NoError

\* C30: viewPLY resolves to a path only if, in that same action, a handler's
\* predicate returned exactly 'True' and the execution of that handler's
\* wrapped save program completed without error; whenever the save
\* evaluation rejects, viewPLY resolves to nothing.
C30_PathOnlyAfterSave ==
    \A a \in Acts :
        /\ act[a].result = "path" =>
              /\ MatchedAndSent(a, act[a].h)
              /\ act[a].err = NoError
        /\ (Done(a) /\ SaveRejected(a)) => act[a].result = "undefined"

(***************************************************************************)
(* Properties of the session of an invocation (SpecRace).                  *)
(***************************************************************************)
Started(a) == act[a].pc # "idle"

\* C31: all requests of one viewPLY invocation (threads, stackTrace, every
\* predicate evaluate, the save evaluate) and the directory it creates and
\* writes to belong to the one session that was active when the invocation
\* started, even if the active session changes or an invocation of another
\* session runs while it is suspended at a remote call.
C31_OneSessionPerInvocation ==
    [][\A a \in Acts :
          /\ (~Started(a) /\ Started(a)') => act'[a].session = active
          /\ Started(a) => act'[a].session = act[a].session
          /\ \A j \in 1..Len(reqs'[a]) : reqs'[a][j].session = act'[a].session
          /\ act'[a].path # NoPath => act'[a].path.dir = act'[a].session
          /\ (act[a].pc = "mkdir" /\ act'[a].pc # "mkdir")
                => (dirs' \ dirs) \subseteq {act[a].session}
          /\ (act[a].pc = "save" /\ act'[a].pc # "save")
                => \A f \in files' \ files : f.dir = act[a].session]_vars

\* two invocations of different sessions are both suspended at a remote call,
\* one of them past its save request while its session is not the active one
C31_Witness ==
    \E a, b \in Acts :
        /\ act[a].session # NoSession /\ act[b].session # NoSession
        /\ act[a].session # act[b].session
        /\ act[a].pc = "save" /\ act[b].pc \in {"check", "save"}
        /\ active = act[b].session
        /\ Len(reqs[a]) >= 4

(***************************************************************************)
(* Properties of the end of an invocation (SpecLive).                      *)
(***************************************************************************)
SentKind(a, kind) == {j \in 1..Len(reqs[a]) : reqs[a][j].kind = kind}

\* invocation a has sent at most one threads request, one stackTrace request,
\* one predicate evaluation per registered handler and one save evaluation
WithinRequestBounds(a) ==
    /\ Cardinality(SentKind(a, "threads")) <= 1
    /\ Cardinality(SentKind(a, "stackTrace")) <= 1
    /\ \A h \in 1..NumHandlers :
          Cardinality({j \in HoverSent(a) : reqs[a][j].h = h}) <= 1
    /\ Cardinality(HoverSent(a)) <= NumHandlers
    /\ Cardinality(ReplSent(a)) <= 1

\* C32: if every remote request is eventually answered (resolved or
\* rejected), every viewPLY invocation eventually finishes, after at most one
\* threads request, one stackTrace request, one predicate evaluation per
\* registered handler and one save evaluation; no request is retried.
C32_FinishesWithinBounds ==
    \A a \in Acts :
        /\ [](Started(a) => <>Done(a))
        /\ [](Done(a) => WithinRequestBounds(a))

(***************************************************************************)
(* The save path as a string: join(sessionDir, file).replace(/\\/g, '/').  *)
(* join of the path module concatenates its arguments with the separator   *)
(* of the platform and normalizes the result: the string is cut at the     *)
(* separators ('/', and '\' too on win32), empty and '.' components are    *)
(* dropped, a '..' component removes the component before it (or is        *)
(* dropped at the root), and the components are joined with the separator. *)
(* The directories of the model are absolute.                              *)
(***************************************************************************)
MaxExpr == 4         \* length of the expressions given to the path builder

Platforms == {"posix", "win32"}

Separator(platform) == IF platform = "win32" THEN "\\" ELSE "/"

IsSeparator(c, platform) == c = "/" \/ (platform = "win32" /\ c = "\\")

RECURSIVE SplitPath(_, _)
\* the components of a path; a separator ends one and begins the next
SplitPath(s, platform) ==
    IF s = <<>> THEN << <<>> >>
    ELSE LET rest == SplitPath(Tail(s), platform)
         IN  IF IsSeparator(Head(s), platform) THEN << <<>> >> \o rest
             ELSE << <<Head(s)>> \o rest[1] >> \o Tail(rest)

RECURSIVE NormalizeParts(_, _)
NormalizeParts(parts, kept) ==
    IF parts = <<>> THEN kept
    ELSE LET p == Head(parts)
         IN  IF Len(p) = 0 \/ p = <<".">> THEN NormalizeParts(Tail(parts), kept)
             ELSE IF p = <<".", ".">>
                  THEN NormalizeParts(Tail(parts),
                                      IF kept = <<>> THEN kept
                                      ELSE SubSeq(kept, 1, Len(kept) - 1))
                  ELSE NormalizeParts(Tail(parts), Append(kept, p))

RECURSIVE JoinParts(_, _)
\* an absolute path of the components
JoinParts(parts, sep) ==
    IF parts = <<>> THEN <<>>
    ELSE <<sep>> \o Head(parts) \o JoinParts(Tail(parts), sep)

\* join(a, b) of two strings, a absolute
join(a, b, platform) ==
    LET sep == Separator(platform)
        parts == NormalizeParts(SplitPath(a \o <<sep>> \o b, platform), <<>>)
    IN  IF parts = <<>> THEN <<sep>> ELSE JoinParts(parts, sep)

\* s.replace(/\\/g, '/')
BackslashesToSlashes(s) == [i \in 1..Len(s) |-> IF s[i] = "\\" THEN "/" ELSE s[i]]

DecimalDigits == <<"0", "1", "2", "3", "4", "5", "6", "7", "8", "9">>

RECURSIVE Decimal(_)
\* `${n}` of a natural number
Decimal(n) ==
    IF n < 10 THEN <<DecimalDigits[n + 1]>>
    ELSE Decimal(n \div 10) \o <<DecimalDigits[(n % 10) + 1]>>

\* this.baseStorageDir, an absolute directory of the platform
BaseStorageDir(platform) == <<Separator(platform), "b">>

\* session.id
SessionId(s) == <<"s">> \o Decimal(s)

\* `${sanitizedName}_${Date.now()}.ply`
FileName(expression, now) ==
    SanitizedName(expression) \o <<"_">> \o Decimal(now) \o <<".", "p", "l", "y">>

sessionDir(s, platform) == join(BaseStorageDir(platform), SessionId(s), platform)

savePath(s, expression, now, platform) ==
    BackslashesToSlashes(join(sessionDir(s, platform), FileName(expression, now), platform))

PathChars == {"a", ".", "/", "\\"}

PathInputs ==
    {[kind |-> "path", expr |-> e, session |-> s, now |-> t, platform |-> p] :
        e \in UNION {[1..k -> PathChars] : k \in 0..MaxExpr},
        s \in Sessions, t \in 0..MaxClock, p \in Platforms}

InitPath ==
    /\ MainInit
    /\ fin \in PathInputs
    /\ fout = Pending

BuildPath ==
    /\ fin.kind = "path"
    /\ ~fout.done
    /\ fout' = [done |-> TRUE,
                val |-> [dir |-> sessionDir(fin.session, fin.platform),
                         path |-> savePath(fin.session, fin.expr, fin.now, fin.platform)]]
    /\ UNCHANGED <<mainVars, fin>>

SpecPath == InitPath /\ [][BuildPath]_vars

(***************************************************************************)
(* Properties of the save path (checked under SpecPath).                   *)
(***************************************************************************)
\* 0-based index of the last '/' of a path, -1 when there is none
LastSlash(p) ==
    LET at == {i \in 1..Len(p) : p[i] = "/"}
    IN  IF at = {} THEN -1 ELSE (CHOOSE i \in at : \A j \in at : j <= i) - 1

dirname(p) == SubSeq(p, 1, LastSlash(p))

basename(p) == SubSeq(p, LastSlash(p) + 2, Len(p))

\* <base>/<sessionId>, with '/' as the separator
SessionDirOf(s) == <<"/", "b", "/">> \o SessionId(s)

\* C33: for every expression the save path is a direct child of the session
\* directory <base>/<sessionId> of its own session: the sanitized name has no
\* path separator, the path is that directory, one '/', and the file name
\* <sanitized>_<timestamp>.ply, and it lies in no other session's directory.
C33_PathStaysInSessionDir ==
    fout.done =>
        LET path == fout.val.path
            file == FileName(fin.expr, fin.now)
        IN  /\ \A i \in 1..Len(SanitizedName(fin.expr)) :
                  SanitizedName(fin.expr)[i] \notin {"/", "\\"}
            /\ BackslashesToSlashes(fout.val.dir) = SessionDirOf(fin.session)
            /\ dirname(path) = SessionDirOf(fin.session)
            /\ basename(path) = file
            /\ path = SessionDirOf(fin.session) \o <<"/">> \o file
            /\ \A s \in Sessions \ {fin.session} :
                  SubSeq(path, 1, Len(SessionDirOf(s)) + 1) # SessionDirOf(s) \o <<"/">>

\* the path of the expression '..', a separator of the platform, '.', in the
\* second session
C33_Witness ==
    /\ fout.done
    /\ Len(fin.expr) = 4
    /\ fin.expr[1] = "." /\ fin.expr[2] = "."
    /\ fin.expr[3] = Separator(fin.platform)
    /\ fin.expr[4] = "."
    /\ fin.session = 2

====
